---- MODULE Spec2Model ----
(***************************************************************************)
(* BeanLog (src/BeanLog/BeanLog.hpp): the process-wide logger singleton,   *)
(* its construction and teardown of the console, the threshold setter and  *)
(* the leveled Log call (LogA and LogW have the same control flow and are  *)
(* modelled by one sequence of steps).  The logger holds no lock, so a Log *)
(* call is a sequence of separate steps that other threads may interleave. *)
(***************************************************************************)
EXTENDS Integers, Sequences, FiniteSets

\* ---------------------------------------------------------------- bounds
MaxCalls == 2      \* Log calls issued in one run by concurrent threads
MaxSeqCalls == 3   \* Log calls issued in one run by a single thread
MaxErr == 2        \* system error codes are 0 (none), 1 .. MaxErr
MaxCount == 2      \* ceiling of the attempt and notification counters
MaxWideCalls == 2  \* Log calls issued in one run with levels outside the enum

Threads == {1, 2}
SeqThreads == {1}

\* ------------------------------------------------------- enum BeanLogLevel
trace == 0
info == 1
warn == 2
fail == 3

Levels == trace .. fail

\* the int values a BeanLogLevel argument can carry beside the enumerators
WideLevels == (trace - 1) .. (fail + 1)
ErrCodes == 0 .. MaxErr

\* int _colors[4]: FOREGROUND_BLUE = 1, _GREEN = 2, _RED = 4, _INTENSITY = 8
_colors == <<7, 10, 14, 12>>

\* the attribute of a console nobody has colored: dim white
DefaultColor == _colors[1]

VARIABLES
    console,              \* "none" | "inherited" | "own" | "freedOwn" | "freedInherited"
    stdoutS,              \* "invalid" | "inherited" | "conout" | "closedOwn" | "closedInherited"
    lifecycle,            \* "uninitialized" | "active" | "destroyed"
    _logLevel,
    _lastError,
    _tmpError,
    _isConsoleAllocated,
    _isStdoutOpen,
    _fConOut,             \* "null" | "stdout"
    _outHandle,           \* "INVALID" | "CONOUT"
    pc,                   \* each thread's position
    lvl,                  \* the level argument of the thread's current call
    lastErr,              \* the thread's GetLastError() value
    cur,                  \* what the thread's current call has seen and done
    prev,                 \* the outcome of the thread's previous call
    conColor,             \* the console's text attribute
    out,                  \* the lines written to the standard output stream
    lastSet,              \* the argument of the latest SetLogLevel call
    twice,                \* the threshold had every SetLogLevel call been made twice
    allocAttempts,
    reopenAttempts,
    ctorNotes,            \* message boxes shown by the constructor
    dtorNotes,            \* message boxes shown by the destructor
    fcloseCalls,
    freeCalls,
    calls                 \* Log calls issued so far

envVars == <<console, stdoutS>>
fieldVars == <<_logLevel, _lastError, _tmpError>>
resVars == <<_isConsoleAllocated, _isStdoutOpen, _fConOut, _outHandle>>
ctorVars == <<lifecycle, allocAttempts, reopenAttempts, ctorNotes>>
dtorVars == <<dtorNotes, fcloseCalls, freeCalls>>
threadVars == <<pc, lvl, lastErr, cur, prev>>
outVars == <<conColor, out>>

vars == <<envVars, fieldVars, resVars, ctorVars, dtorVars, threadVars, outVars,
          lastSet, twice, calls>>

\* a call's record: whether the last-error value was set anew before it, the
\* length of out when it began, whether it passed the filter, wrote its
\* application line, wrote a system line, and the code of that line
NoCall == [fresh |-> FALSE, mark |-> 0, passed |-> FALSE, app |-> FALSE,
           sysw |-> FALSE, sys |-> 0]

NoPrev == [passed |-> FALSE, dup |-> FALSE, sysw |-> FALSE]

Bump(n) == IF n < MaxCount THEN n + 1 ELSE n

\* the code of the latest system line of s, 0 when it holds none
RECURSIVE LastShown(_)
LastShown(s) ==
    IF s = << >> THEN 0
    ELSE IF s[Len(s)].tag = "SYS" THEN s[Len(s)].code
    ELSE LastShown(SubSeq(s, 1, Len(s) - 1))

\* the code of the latest system line written before thread t's call began
ShownBefore(t) == LastShown(SubSeq(out, 1, cur[t].mark))

\* whether the standard output stream ends on a console
SinkIsConsole ==
    \/ stdoutS = "conout" /\ console = "own"
    \/ stdoutS = "inherited" /\ console = "inherited"

\* ------------------------------------------------------------------ Init
\* A process of the windows subsystem has no console and no usable stdout; a
\* process of the console subsystem has both.
Init ==
    /\ \E attached \in BOOLEAN :
          /\ console = IF attached THEN "inherited" ELSE "none"
          /\ stdoutS = IF attached THEN "inherited" ELSE "invalid"
    /\ lifecycle = "uninitialized"
    /\ _logLevel = trace
    /\ _lastError = 0
    /\ _tmpError = 0
    /\ _isConsoleAllocated = FALSE
    /\ _isStdoutOpen = FALSE
    /\ _fConOut = "null"
    /\ _outHandle = "INVALID"
    /\ pc = [t \in Threads |-> "idle"]
    /\ lvl = [t \in Threads |-> trace]
    /\ lastErr = [t \in Threads |-> 0]
    /\ cur = [t \in Threads |-> NoCall]
    /\ prev = [t \in Threads |-> NoPrev]
    /\ conColor = DefaultColor
    /\ out = << >>
    /\ lastSet = trace
    /\ twice = trace
    /\ allocAttempts = 0
    /\ reopenAttempts = 0
    /\ ctorNotes = 0
    /\ dtorNotes = 0
    /\ fcloseCalls = 0
    /\ freeCalls = 0
    /\ calls = 0

\* ------------------------------------------------------- BeanLog::BeanLog
\* AllocConsole fails when the process has a console already, and may fail
\* otherwise; freopen_s and GetStdHandle may fail.
AllocOutcomes == IF console = "none" THEN BOOLEAN ELSE {FALSE}

Construct(allocOk, reopenOk, handleOk) ==
    /\ lifecycle' = "active"
    /\ allocAttempts' = Bump(allocAttempts)
    /\ _isConsoleAllocated' = allocOk
    /\ IF ~allocOk
       THEN /\ ctorNotes' = Bump(ctorNotes)
            /\ UNCHANGED <<console, stdoutS, reopenAttempts, _isStdoutOpen,
                           _fConOut, _outHandle>>
       ELSE /\ console' = "own"
            /\ reopenAttempts' = Bump(reopenAttempts)
            /\ IF ~reopenOk
               THEN /\ stdoutS' = "invalid"
                    /\ ctorNotes' = Bump(ctorNotes)
                    /\ UNCHANGED <<_isStdoutOpen, _fConOut, _outHandle>>
               ELSE /\ stdoutS' = "conout"
                    /\ _fConOut' = "stdout"
                    /\ _isStdoutOpen' = TRUE
                    /\ _outHandle' = IF handleOk THEN "CONOUT" ELSE "INVALID"
                    /\ ctorNotes' = IF handleOk THEN ctorNotes ELSE Bump(ctorNotes)

\* a logger built anew by every access (a local that is not static)
NeedsConstruction_EveryAccess == lifecycle # "destroyed"

\* static BeanLog Logger: constructed by the first thread that gets here,
\* under the initialisation guard of the function-local static
NeedsConstruction == lifecycle = "uninitialized"

GetInstance ==
    IF NeedsConstruction
    THEN \E allocOk \in AllocOutcomes, reopenOk \in BOOLEAN, handleOk \in BOOLEAN :
            Construct(allocOk, reopenOk, handleOk)
    ELSE UNCHANGED <<envVars, resVars, ctorVars>>

\* ----------------------------------------------------- BeanLog::SetLogLevel
\* the argument is added to the threshold
NewLevel_Added(old, l) == (old + l) % (fail + 1)

\* _logLevel = lvl;
NewLevel(old, l) == l

\* the setter also forgets the displayed error
SetLogLevel_Resetting(t, l) ==
    /\ pc[t] = "idle"
    /\ lifecycle # "destroyed"
    /\ GetInstance
    /\ _logLevel' = NewLevel(_logLevel, l)
    /\ _lastError' = 0
    /\ lastSet' = l
    /\ twice' = NewLevel(NewLevel(twice, l), l)
    /\ UNCHANGED <<_tmpError, dtorVars, threadVars, outVars, calls>>

\* bean_set_loglevel(l): BeanLog::GetInstance().SetLogLevel(l)
SetLogLevel(t, l) ==
    /\ pc[t] = "idle"
    /\ lifecycle # "destroyed"
    /\ GetInstance
    /\ _logLevel' = NewLevel(_logLevel, l)
    /\ lastSet' = l
    /\ twice' = NewLevel(NewLevel(twice, l), l)
    /\ UNCHANGED <<_lastError, _tmpError, dtorVars, threadVars, outVars, calls>>

\* ------------------------------------------ BeanLog::LogA / BeanLog::LogW
\* a strict comparison with the threshold
PassesFilter_Strict(l, threshold) == l > threshold /\ l >= 0 /\ l <= fail

\* the comparison with the threshold alone, with no test of the range
PassesFilter_NoRange(l, threshold) == l >= threshold

\* if (lvl >= _logLevel && lvl >= 0 && lvl <= fail)
PassesFilter(l, threshold) == l >= threshold /\ l >= 0 /\ l <= fail

\* every non-zero code is printed
ShouldPrint_NoDedup(tmp, last) == tmp # 0

\* an ordering test in place of the inequality
ShouldPrint_Increasing(tmp, last) == tmp # 0 /\ tmp > last

\* if ((_tmpError = GetLastError()) != 0 && _tmpError != _lastError)
ShouldPrint(tmp, last) == tmp # 0 /\ tmp # last

\* the displayed code is not recorded
StoredError_Dropped(tmp, last) == last

\* _lastError = _tmpError;
StoredError(tmp, last) == tmp

\* bean_*_a / bean_*_w: BeanLog::GetInstance().LogA(level, ...).  Before the
\* call the application's system calls may have set the thread's last-error
\* value (SetLastError) to e, a failure code or 0; otherwise it is the value
\* the previous call left.  The run issues at most bound calls.
Call(t, l, set, e, bound) ==
    /\ pc[t] = "idle"
    /\ lifecycle # "destroyed"
    /\ calls < bound
    /\ GetInstance
    /\ calls' = calls + 1
    /\ lvl' = [lvl EXCEPT ![t] = l]
    /\ lastErr' = [lastErr EXCEPT ![t] = IF set THEN e ELSE @]
    /\ cur' = [cur EXCEPT ![t] = [NoCall EXCEPT !.fresh = set, !.mark = Len(out)]]
    /\ pc' = [pc EXCEPT ![t] = "check"]
    /\ UNCHANGED <<fieldVars, dtorVars, prev, outVars, lastSet, twice>>

\* the system error is looked at for a filtered call too
CheckLevel_SysWhenFiltered(t) ==
    /\ pc[t] = "check"
    /\ IF PassesFilter(lvl[t], _logLevel)
       THEN /\ pc' = [pc EXCEPT ![t] = "color"]
            /\ cur' = [cur EXCEPT ![t].passed = TRUE]
       ELSE /\ pc' = [pc EXCEPT ![t] = "geterr"]
            /\ UNCHANGED cur
    /\ UNCHANGED <<envVars, fieldVars, resVars, ctorVars, dtorVars, lvl, lastErr,
                   prev, outVars, lastSet, twice, calls>>

CheckLevel(t) ==
    /\ pc[t] = "check"
    /\ IF PassesFilter(lvl[t], _logLevel)
       THEN /\ pc' = [pc EXCEPT ![t] = "color"]
            /\ cur' = [cur EXCEPT ![t].passed = TRUE]
       ELSE /\ pc' = [pc EXCEPT ![t] = "done"]
            /\ UNCHANGED cur
    /\ UNCHANGED <<envVars, fieldVars, resVars, ctorVars, dtorVars, lvl, lastErr,
                   prev, outVars, lastSet, twice, calls>>

\* SetConsoleTextAttribute(_outHandle, _colors[lvl]): no effect on an invalid handle
SetColor(t) ==
    /\ pc[t] = "color"
    /\ conColor' = IF _outHandle = "CONOUT" THEN _colors[lvl[t] + 1] ELSE conColor
    /\ pc' = [pc EXCEPT ![t] = "app"]
    /\ UNCHANGED <<envVars, fieldVars, resVars, ctorVars, dtorVars, lvl, lastErr,
                   cur, prev, out, lastSet, twice, calls>>

\* std::cout << std::format("[APP] [{}]: {}.", ...) << std::endl
WriteApp(t) ==
    /\ pc[t] = "app"
    /\ out' = Append(out, [tag |-> "APP", by |-> t, lvl |-> lvl[t], code |-> 0,
                           color |-> conColor])
    /\ cur' = [cur EXCEPT ![t].app = TRUE]
    /\ pc' = [pc EXCEPT ![t] = "geterr"]
    /\ UNCHANGED <<envVars, fieldVars, resVars, ctorVars, dtorVars, lvl, lastErr,
                   prev, conColor, lastSet, twice, calls>>

\* _tmpError = GetLastError()
SampleError(t) ==
    /\ pc[t] = "geterr"
    /\ _tmpError' = lastErr[t]
    /\ pc' = [pc EXCEPT ![t] = "cmp"]
    /\ UNCHANGED <<envVars, _logLevel, _lastError, resVars, ctorVars, dtorVars, lvl,
                   lastErr, cur, prev, outVars, lastSet, twice, calls>>

\* ... != 0 && _tmpError != _lastError: the shared fields are read here
Compare(t) ==
    /\ pc[t] = "cmp"
    /\ pc' = [pc EXCEPT ![t] = IF ShouldPrint(_tmpError, _lastError)
                                THEN "print" ELSE "done"]
    /\ UNCHANGED <<envVars, fieldVars, resVars, ctorVars, dtorVars, lvl, lastErr,
                   cur, prev, outVars, lastSet, twice, calls>>

\* _PrintSystemError(_tmpError): std::wcout << std::format(L"[SYS] [{}]: {}", ...)
PrintSystemError(t) ==
    /\ pc[t] = "print"
    /\ out' = Append(out, [tag |-> "SYS", by |-> t, lvl |-> lvl[t],
                           code |-> _tmpError, color |-> conColor])
    /\ cur' = [cur EXCEPT ![t].sysw = TRUE, ![t].sys = _tmpError]
    /\ pc' = [pc EXCEPT ![t] = "store"]
    /\ UNCHANGED <<envVars, fieldVars, resVars, ctorVars, dtorVars, lvl, lastErr,
                   prev, conColor, lastSet, twice, calls>>

StoreLastError(t) ==
    /\ pc[t] = "store"
    /\ _lastError' = StoredError(_tmpError, _lastError)
    /\ pc' = [pc EXCEPT ![t] = "done"]
    /\ UNCHANGED <<envVars, _logLevel, _tmpError, resVars, ctorVars, dtorVars, lvl,
                   lastErr, cur, prev, outVars, lastSet, twice, calls>>

\* the call returns to the application
Return(t) ==
    /\ pc[t] = "done"
    /\ pc' = [pc EXCEPT ![t] = "idle"]
    /\ prev' = [prev EXCEPT ![t] = [passed |-> cur[t].passed,
                                    dup |-> lastErr[t] # 0 /\ lastErr[t] = ShownBefore(t),
                                    sysw |-> cur[t].sysw]]
    /\ cur' = [cur EXCEPT ![t] = NoCall]
    /\ lvl' = [lvl EXCEPT ![t] = trace]
    /\ UNCHANGED <<envVars, fieldVars, resVars, ctorVars, dtorVars, lastErr,
                   outVars, lastSet, twice, calls>>

\* ------------------------------------------------------ BeanLog::~BeanLog
\* the stream is closed whether or not it was reopened here
ShouldClose_Always == TRUE

ShouldClose == _isStdoutOpen

\* the console is freed whether or not it was allocated here
ShouldFree_Always == TRUE

ShouldFree == _isConsoleAllocated

\* runs at process exit, when no thread is inside the logger
Destroy ==
    /\ lifecycle = "active"
    /\ \A t \in Threads : pc[t] = "idle"
    /\ lifecycle' = "destroyed"
    /\ \E closeOk \in BOOLEAN, freeOk \in BOOLEAN :
          LET closeNote == IF ShouldClose /\ ~closeOk THEN 1 ELSE 0
              freeNote == IF ShouldFree /\ ~freeOk THEN 1 ELSE 0
          IN  dtorNotes' = dtorNotes + closeNote + freeNote
    /\ IF ShouldClose
       THEN /\ fcloseCalls' = Bump(fcloseCalls)
            /\ stdoutS' = CASE stdoutS = "conout" -> "closedOwn"
                            [] stdoutS = "inherited" -> "closedInherited"
                            [] OTHER -> stdoutS
       ELSE UNCHANGED <<fcloseCalls, stdoutS>>
    /\ IF ShouldFree
       THEN /\ freeCalls' = Bump(freeCalls)
            /\ console' = CASE console = "own" -> "freedOwn"
                            [] console = "inherited" -> "freedInherited"
                            [] OTHER -> console
       ELSE UNCHANGED <<freeCalls, console>>
    /\ UNCHANGED <<fieldVars, resVars, allocAttempts, reopenAttempts, ctorNotes,
                   threadVars, outVars, lastSet, twice, calls>>

\* ------------------------------------------------------------------ Next
\* a thread's next step inside or into a Log call, levels drawn from levels
LogStep(t, bound, levels) ==
    \/ \E l \in levels, set \in BOOLEAN, e \in ErrCodes :
          (set \/ e = 0) /\ Call(t, l, set, e, bound)
    \/ CheckLevel(t)
    \/ SetColor(t)
    \/ WriteApp(t)
    \/ SampleError(t)
    \/ Compare(t)
    \/ PrintSystemError(t)
    \/ StoreLastError(t)
    \/ Return(t)

Step(t, bound) ==
    \/ \E l \in Levels : SetLogLevel(t, l)
    \/ LogStep(t, bound, Levels)

Next == (\E t \in Threads : Step(t, MaxCalls)) \/ Destroy

NextSeq == (\E t \in SeqThreads : Step(t, MaxSeqCalls)) \/ Destroy

\* no SetLogLevel call is made
NextDefault == (\E t \in SeqThreads : LogStep(t, MaxSeqCalls, Levels)) \/ Destroy

\* level and threshold arguments reach beyond the enumerators
NextWide ==
    \/ \E t \in SeqThreads :
          \/ \E l \in WideLevels : SetLogLevel(t, l)
          \/ LogStep(t, MaxWideCalls, WideLevels)
    \/ Destroy

\* any number of threads use the logger
Spec == Init /\ [][Next]_vars

\* one thread uses the logger: its calls follow one another
SpecSeq == Init /\ [][NextSeq]_vars

\* one thread logs at the default threshold
SpecDefault == Init /\ [][NextDefault]_vars

\* one thread uses the logger with int values around the enumerators
SpecWide == Init /\ [][NextWide]_vars

\* =================================================================== claims
Done(t) == pc[t] = "done"

\* the positions of a call between its color selection and its last write
Region == {"app", "geterr", "cmp", "print"}

\* C1: a Log call writes its application line if and only if its level is at
\* least the argument of the latest SetLogLevel call (trace when there was
\* none), the next call after a SetLogLevel included.
C1_FilterByThreshold ==
    \A t \in Threads : Done(t) => (cur[t].app <=> lvl[t] >= lastSet)

\* a call is filtered by a threshold set after the thread's previous call passed
C1_Witness ==
    /\ Done(1) /\ prev[1].passed /\ ~cur[1].app
    /\ lastSet = warn /\ lvl[1] = info /\ Len(out) >= 1

\* C2: while a call is between its color selection and its last write, no
\* other call selects a color or writes a line.
C2_LogCallsAtomic ==
    [][\A t, u \in Threads :
          (t # u /\ pc[t] \in Region)
             => /\ ~(pc[u] = "color" /\ pc'[u] = "app")
                /\ ~(pc[u] \in {"app", "print"} /\ pc'[u] # pc[u])]_vars

\* C3: after teardown the stdout stream was closed exactly when this logger
\* had reopened it, the console freed exactly when this logger had allocated
\* it, and an inherited stream or console is left alone.
C3_TeardownFreesOwn ==
    lifecycle = "destroyed" =>
        /\ stdoutS \in {"invalid", "inherited", "closedOwn"}
        /\ console \in {"none", "inherited", "freedOwn"}
        /\ (fcloseCalls = 1 <=> stdoutS = "closedOwn")
        /\ (freeCalls = 1 <=> console = "freedOwn")
        /\ fcloseCalls <= 1 /\ freeCalls <= 1

\* a logger that allocated and reopened has closed and freed both
C3_Witness ==
    /\ lifecycle = "destroyed" /\ stdoutS = "closedOwn" /\ console = "freedOwn"
    /\ fcloseCalls = 1 /\ freeCalls = 1 /\ Len(out) >= 1

\* C4: AllocConsole and freopen_s are each called at most once, only by the
\* step that takes the singleton from uninitialized to active, and the
\* lifecycle only moves uninitialized -> active -> destroyed.
C4_ConstructedOnce ==
    [][/\ allocAttempts' <= 1 /\ reopenAttempts' <= 1
       /\ (allocAttempts' # allocAttempts \/ reopenAttempts' # reopenAttempts)
             => (lifecycle = "uninitialized" /\ lifecycle' = "active")
       /\ lifecycle' # lifecycle
             => <<lifecycle, lifecycle'>> \in {<<"uninitialized", "active">>,
                                               <<"active", "destroyed">>}]_vars

\* both threads are inside a Log call of a logger constructed once
C4_Witness ==
    /\ lifecycle = "active" /\ allocAttempts = 1 /\ reopenAttempts = 1
    /\ \A t \in Threads : pc[t] \notin {"idle", "done"}

\* C5: a call below the threshold writes nothing and leaves the thread's
\* last-error value 0.
C5_FilteredCallClearsError ==
    \A t \in Threads :
        (Done(t) /\ ~cur[t].passed)
           => (~cur[t].app /\ Len(out) = cur[t].mark /\ lastErr[t] = 0)

C7_DisplayClearsError ==
    \A t \in Threads : (Done(t) /\ cur[t].sysw) => lastErr[t] = 0

\* C8: a passing call whose pending code is non-zero and differs from the
\* code of the latest system line writes a system line for the pending code.
C8_NewCodeShown ==
    \A t \in Threads :
        (Done(t) /\ cur[t].passed /\ lastErr[t] # 0 /\ lastErr[t] # ShownBefore(t))
           => /\ cur[t].sysw /\ cur[t].sys = lastErr[t]
              /\ out[Len(out)].tag = "SYS" /\ out[Len(out)].code = lastErr[t]

\* the codes 1, 2, 1 of three calls gave three system lines
C8_Witness ==
    /\ Done(1) /\ Len(out) = 6
    /\ \A i \in {2, 4, 6} : out[i].tag = "SYS"
    /\ out[2].code = 1 /\ out[4].code = 2 /\ out[6].code = 1

\* C9: with a console attached before construction the logger holds the
\* console's output handle, has called neither AllocConsole nor freopen_s, and
\* both flags are false.
C9_AttachedConsoleUsed ==
    (lifecycle = "active" /\ console = "inherited")
       => /\ _outHandle = "CONOUT"
          /\ allocAttempts = 0 /\ reopenAttempts = 0
          /\ ~_isConsoleAllocated /\ ~_isStdoutOpen

\* C10: when AllocConsole failed, one notification was shown by the
\* constructor, none afterwards, and no line reaches a console.
C10_AllocFailureSilent ==
    (lifecycle # "uninitialized" /\ ~_isConsoleAllocated)
       => /\ ctorNotes = 1 /\ dtorNotes = 0
          /\ SinkIsConsole => out = << >>

\* the application lines of s, in order
RECURSIVE AppLines(_)
AppLines(s) ==
    IF s = << >> THEN << >>
    ELSE IF s[1].tag = "APP" THEN <<s[1]>> \o AppLines(Tail(s))
    ELSE AppLines(Tail(s))

\* C11: on a console whose output handle the logger holds, every application
\* line is written in the color of its own level.
C11_LineInOwnColor ==
    _outHandle = "CONOUT" =>
        \A i \in 1 .. Len(out) :
            out[i].tag = "APP" => out[i].color = _colors[out[i].lvl + 1]

\* C12: with no SetLogLevel call made, the k-th Log call of a thread writes
\* the k-th application line, and there are as many lines as calls.
C12_OneLinePerCall ==
    /\ \A t \in SeqThreads :
          Done(t) => /\ Len(AppLines(out)) = calls
                     /\ Len(AppLines(SubSeq(out, 1, cur[t].mark))) = calls - 1
                     /\ AppLines(out)[calls].lvl = lvl[t]
    /\ (\A t \in SeqThreads : pc[t] = "idle") => Len(AppLines(out)) = calls

\* three calls at warn, fail, info gave three application lines in that order
C12_Witness ==
    /\ Done(1) /\ calls = 3 /\ Len(AppLines(out)) = 3
    /\ AppLines(out)[1].lvl = warn /\ AppLines(out)[2].lvl = fail
    /\ AppLines(out)[3].lvl = info

\* C13: an application line is written only while its level is at least the
\* threshold in force at the moment of the write.
C13_ThresholdAtWrite ==
    [][\A t \in Threads :
          (pc[t] = "app" /\ pc'[t] = "geterr") => lvl[t] >= _logLevel]_vars

\* C14: the threshold is the one the logger would hold had every SetLogLevel
\* call been made twice in a row, so every level is filtered alike.
C14_SetTwiceAsOnce ==
    /\ twice = _logLevel
    /\ \A l \in Levels : PassesFilter(l, twice) <=> PassesFilter(l, _logLevel)

\* a threshold was set over another one and a call was filtered by it
C14_Witness ==
    /\ Done(1) /\ ~cur[1].passed /\ prev[1].passed
    /\ twice = fail /\ _logLevel = fail /\ lvl[1] = warn

\* C15: a step that sets the threshold writes no line, changes neither the
\* console color nor the error fields, nor the flags and the handle of a logger
\* that exists; a step of a Log call leaves the threshold alone.
C15_SetterFrame ==
    [][/\ lastSet' # lastSet
          => /\ out' = out /\ conColor' = conColor
             /\ _lastError' = _lastError /\ _tmpError' = _tmpError
             /\ _logLevel' = lastSet'
             /\ lifecycle = "active" => UNCHANGED resVars
       /\ (\E t \in Threads : pc'[t] # pc[t]) =>
             (_logLevel' = _logLevel /\ lastSet' = lastSet)]_vars

\* the threshold was raised after a trace line and a system line were written
\* on a colored console
C15_Witness ==
    /\ lastSet = warn /\ _lastError # 0 /\ Len(out) >= 2
    /\ out[1].tag = "APP" /\ out[1].lvl = trace
    /\ _outHandle = "CONOUT" /\ conColor # DefaultColor
    /\ \A t \in Threads : pc[t] = "idle"

\* C16: when the console was allocated and freopen_s failed, the constructor
\* showed one message box, the allocated flag is true and the reopened flag
\* false, and teardown calls FreeConsole and not fclose.
C16_ReopenFailure ==
    (console \in {"own", "freedOwn"} /\ stdoutS = "invalid")
       => /\ ctorNotes = 1 /\ _isConsoleAllocated /\ ~_isStdoutOpen
          /\ fcloseCalls = 0
          /\ lifecycle = "destroyed" => (freeCalls = 1 /\ console = "freedOwn")
          /\ lifecycle = "active" => freeCalls = 0

\* such a logger was torn down after logging
C16_Witness ==
    /\ lifecycle = "destroyed" /\ console = "freedOwn" /\ stdoutS = "invalid"
    /\ freeCalls = 1 /\ fcloseCalls = 0 /\ ctorNotes = 1 /\ calls >= 1

\* C17: every system line directly follows the application line of the same
\* call, a call writes at most one system line after its application line,
\* and a filtered call writes nothing.
C17_SystemLineAfterOwn ==
    /\ \A i \in 1 .. Len(out) :
          out[i].tag = "SYS"
             => /\ i > 1 /\ out[i - 1].tag = "APP"
                /\ out[i - 1].by = out[i].by /\ out[i - 1].lvl = out[i].lvl
    /\ \A t \in SeqThreads :
          /\ cur[t].sysw => cur[t].app
          /\ pc[t] # "idle" => Len(out) - cur[t].mark <= 2
          /\ (Done(t) /\ ~cur[t].passed) => (~cur[t].sysw /\ Len(out) = cur[t].mark)

\* a call wrote both lines for code 1, a filtered call made with code 2
\* pending wrote nothing, and the next passing call wrote both lines for code 2
C17_Witness ==
    /\ Done(1) /\ cur[1].sysw /\ ~cur[1].fresh /\ ~prev[1].passed /\ Len(out) = 4
    /\ out[1].tag = "APP" /\ out[2].tag = "SYS" /\ out[2].code = 1
    /\ out[3].tag = "APP" /\ out[4].tag = "SYS" /\ out[4].code = 2

\* C18: outside the two statements that print and record a code, _lastError
\* is the code of the latest system line (0 when there is none), so that no
\* step ever brings it back to a code that is not the latest one displayed,
\* and a passing call whose pending code equals the latest displayed code
\* writes no system line.
C18_RecordIsLatestShown ==
    /\ (\A t \in Threads : pc[t] # "store") => _lastError = LastShown(out)
    /\ \A t \in Threads :
          (Done(t) /\ cur[t].passed /\ lastErr[t] # 0 /\ lastErr[t] = ShownBefore(t))
             => ~cur[t].sysw

\* C19: the code of a call's system line and the code it records in
\* _lastError are the last-error value of the calling thread.
C19_OwnSampleUsed ==
    [][\A t \in Threads :
          /\ (pc[t] = "print" /\ pc'[t] = "store")
                => out'[Len(out')].code = lastErr[t]
          /\ (pc[t] = "store" /\ pc'[t] = "done") => _lastError' = lastErr[t]]_vars

\* C20: a color is selected only with an index of the table, and a call whose
\* level is no enumerator is filtered, selects no color and writes no line,
\* whatever int the threshold holds.
C20_ColorIndexInRange ==
    \A t \in SeqThreads :
        /\ pc[t] \in {"color", "app"} => (lvl[t] + 1) \in DOMAIN _colors
        /\ lvl[t] \notin Levels
              => /\ pc[t] \in {"check", "done"}
                 /\ ~cur[t].passed /\ ~cur[t].app /\ ~cur[t].sysw
                 /\ Len(out) = cur[t].mark

\* a call above fail was filtered though the threshold is below trace
C20_Witness ==
    /\ Done(1) /\ lvl[1] = fail + 1 /\ _logLevel = trace - 1
    /\ ~cur[1].passed /\ prev[1].passed
====
